---- MODULE Spec2Model ----
(***************************************************************************)
(* Model of the asynchronous BinaryHeap of src/binary_heap.ts.            *)
(*                                                                         *)
(* Arrays live in a store (mem) and a heap's #data field holds the         *)
(* address of its backing array, so that copying and sharing an array are  *)
(* different things.  An async method runs synchronously up to its next    *)
(* `await this.#compare(...)`; a call in flight is a record of `calls`     *)
(* holding its local variables and the arguments of the comparison it is    *)
(* suspended at.  Indexes are zero based, as in the source.                *)
(*                                                                         *)
(* last is what the most recent call returned (with the array it found in  *)
(* pre), gen is the generator of drain(), after counts the calls made once *)
(* from() has returned.  Spec is one heap under every method, SpecDrain a   *)
(* heap that is drained, SpecFrom the bulk construction of heap 2.          *)
(***************************************************************************)
EXTENDS Integers, Sequences, FiniteSets, Bags, TLC

VARIABLES mem, heap, calls, gen, last, after

vars == <<mem, heap, calls, gen, last, after>>

(* ---------------------------------------------------------------- bounds *)
\* values pushed by the caller are 0..MaxVal
MaxVal == 2
\* a heap holds at most MaxLen elements
MaxLen == 5
\* one push call takes at most MaxPush values
MaxPush == 2
\* a raw source collection of from() has at most MaxSrc elements
MaxSrc == 3
\* at most MaxAfter calls are made once from() has returned its heap
MaxAfter == 1

Val == 0..MaxVal
HeapIds == {1, 2}
CallIds == {1, 2}
Addr == 1..4

\* the absent value of JavaScript
Undef == -1

(* ----------------------------------------------------- array primitives *)
\* array[i], zero based; undefined outside the array
At(array, i) == IF i >= 0 /\ i < Len(array) THEN array[i + 1] ELSE Undef

\* `array[i] = v`: a write past the end grows the array, the slots between
\* reading as undefined
Put(array, i, v) ==
  IF i < Len(array) THEN [array EXCEPT ![i + 1] = v]
  ELSE array \o [k \in 1..(i - Len(array)) |-> Undef] \o <<v>>

\* (mutant) swap copies one way only
swapOverwrites(array, a, b) == Put(array, a, At(array, b))

\* `const temp = array[a]; array[a] = array[b]; array[b] = temp`
swap(array, a, b) == Put(Put(array, a, At(array, b)), b, At(array, a))

\* (mutant) the parent of an index is the index before it
getParentIndexLinear(index) == index - 1

getParentIndex(index) == ((index + 1) \div 2) - 1

(* ------------------------------------------------------------ comparators *)
\* descend of @std/data-structures, the default ordering
\* `a < b` and `a > b` of JavaScript, both false when a side is undefined
Lt(a, b) == a # Undef /\ b # Undef /\ a < b
Gt(a, b) == a # Undef /\ b # Undef /\ a > b

descend(a, b) == IF Lt(a, b) THEN 1 ELSE IF Gt(a, b) THEN -1 ELSE 0

ascend(a, b) == IF Lt(a, b) THEN -1 ELSE IF Gt(a, b) THEN 1 ELSE 0

\* an element v stands for the object {x: v \div 2, y: v % 2}
KeyX(v) == v \div 2

Comparators == {"descend", "ascend", "ascendX"}

\* the value an ordering function resolves to
Compare(cmp, a, b) ==
  CASE cmp = "descend" -> descend(a, b)
    [] cmp = "ascend"  -> ascend(a, b)
    [] cmp = "ascendX" -> ascend(KeyX(a), KeyX(b))

\* `ascend(a.x, b.x)` reads a property of its arguments, which is a TypeError
\* when one of them is undefined
Throws(cmp, a, b) == cmp = "ascendX" /\ (a = Undef \/ b = Undef)

\* typeof of a constructor argument: the comparators are functions, the rest
\* ("undefined", "null", "object", "number") are not
TypeOf(arg) == IF arg \in Comparators THEN "function" ELSE arg

NonFunctions == {"null", "object", "number"}

\* what the caller may pass to `new BinaryHeap(compare)`
CompareArgs == {"undefined"} \cup NonFunctions \cup Comparators

(* -------------------------------------------------------------- records *)
NoCtx ==
  [srcKind |-> "none", srcHeap |-> 0, srcAddr |-> 0, src |-> <<>>,
   compare |-> "undefined", map |-> "undefined", mapCalls |-> <<>>]

IdleCall ==
  [op |-> "idle", h |-> 0, tag |-> "none", pc |-> "none", values |-> <<>>,
   index |-> 0, parent |-> 0, left |-> 0, right |-> 0, size |-> 0,
   greatestChild |-> 0, ca |-> Undef, cb |-> Undef, ncmp |-> 0, pending |-> 0,
   result |-> Undef, threw |-> "", pre |-> <<>>, args |-> <<>>, ctx |-> NoCtx]

\* ctx: how from() made the heap (NoCtx for a heap made by `new`); fails: the
\* calls on the heap that a failing comparison aborted; snap: the array that
\* toArray() handed to the caller, and snapWas: what the caller has put in it;
\* overlaps: the calls on the heap started while another one was in flight
NoHeap ==
  [live |-> FALSE, data |-> 0, cmp |-> "none", ctx |-> NoCtx, fails |-> 0,
   overlaps |-> 0, snap |-> 0, snapWas |-> <<>>]

\* a heap as its constructor leaves it
NewHeap(a, cmp, ctx) == [NoHeap EXCEPT !.live = TRUE, !.data = a, !.cmp = cmp,
                                       !.ctx = ctx]

NoLast ==
  [op |-> "none", h |-> 0, tag |-> "none", arg |-> "undefined", args |-> <<>>,
   pre |-> <<>>, result |-> Undef, bool |-> FALSE, ncmp |-> 0, threw |-> "",
   rest |-> <<>>, index |-> 0, ctx |-> NoCtx]

NoGen ==
  [state |-> "none", h |-> 0, via |-> "none", start |-> <<>>, yielded |-> <<>>,
   clean |-> TRUE]

SeqsUpTo(S, n) == UNION {[1..k -> S] : k \in 0..n}

(* ------------------------------------------------------------------ push *)
\* the call suspended at `await this.#compare(a, b)`
\* (mutant) the comparison is issued along with another one
AwaitTwo(c, pc, a, b) ==
  [c EXCEPT !.pc = pc, !.ca = a, !.cb = b, !.ncmp = @ + 1, !.pending = @ + 2]

Await(c, pc, a, b) ==
  [c EXCEPT !.pc = pc, !.ca = a, !.cb = b, !.ncmp = @ + 1, !.pending = @ + 1]

RECURSIVE PushFor(_, _)
RECURSIVE PushWhile(_, _)

\* (mutant) push returns the number of values it was given
PushForCount(c, data) ==
  IF c.values = <<>>
  THEN [c |-> [c EXCEPT !.pc = "done", !.result = Len(c.args)], data |-> data]
  ELSE LET index == Len(data)
       IN PushWhile([c EXCEPT !.values = Tail(@), !.index = index,
                              !.parent = getParentIndex(index)],
                    Append(data, Head(c.values)))

\* `for (const value of values)`: append the next value, or return the length
PushFor(c, data) ==
  IF c.values = <<>>
  THEN [c |-> [c EXCEPT !.pc = "done", !.result = Len(data)], data |-> data]
  ELSE LET index == Len(data)
       IN PushWhile([c EXCEPT !.values = Tail(@), !.index = index,
                              !.parent = getParentIndex(index)],
                    Append(data, Head(c.values)))

\* `while (index !== 0)`: compare the value with its parent
PushWhile(c, data) ==
  IF c.index # 0
  THEN [c |-> Await(c, "push_cmp", At(data, c.index), At(data, c.parent)),
        data |-> data]
  ELSE PushFor(c, data)

\* (mutant) push swaps on a comparison of 0 too
PushResumeSwapsTies(c, data, comparison) ==
  IF comparison <= 0
  THEN PushWhile([c EXCEPT !.index = c.parent,
                           !.parent = getParentIndex(c.parent)],
                 swap(data, c.parent, c.index))
  ELSE PushFor(c, data)

\* the comparison of push has resolved
PushResume(c, data, comparison) ==
  IF comparison < 0
  THEN PushWhile([c EXCEPT !.index = c.parent,
                           !.parent = getParentIndex(c.parent)],
                 swap(data, c.parent, c.index))
  ELSE PushFor(c, data)

(* ------------------------------------------------------------------- pop *)
\* (mutant) pop returns the last slot and removes the one before it too
PopReturnDropsTwo(c, data) ==
  [c |-> [c EXCEPT !.pc = "done", !.result = At(data, Len(data) - 1)],
   data |-> IF Len(data) < 2 THEN <<>> ELSE SubSeq(data, 1, Len(data) - 2)]

\* (mutant) pop returns the root it saw when it started
PopReturnSaved(c, data) ==
  [c |-> [c EXCEPT !.pc = "done", !.result = At(c.pre, 0)],
   data |-> IF data = <<>> THEN data ELSE SubSeq(data, 1, Len(data) - 1)]

\* `return this.#data.pop()`
PopReturn(c, data) ==
  [c |-> [c EXCEPT !.pc = "done", !.result = At(data, Len(data) - 1)],
   data |-> IF data = <<>> THEN data ELSE SubSeq(data, 1, Len(data) - 1)]

\* `await this.#compare(this.#data[greatestChild], this.#data[parent])`
PopCompareParent(c, data) ==
  [c |-> Await(c, "pop_parent", At(data, c.greatestChild), At(data, c.parent)),
   data |-> data]

\* (mutant) the left child is taken without looking at the right one
PopWhileLeftOnly(c, data) ==
  IF c.left < c.size
  THEN PopCompareParent([c EXCEPT !.greatestChild = c.left], data)
  ELSE PopReturn(c, data)

\* `while (left < size)`: choose the child to compare with the parent
PopWhile(c, data) ==
  IF c.left < c.size
  THEN IF c.right >= c.size
       THEN PopCompareParent([c EXCEPT !.greatestChild = c.left], data)
       ELSE [c |-> Await(c, "pop_child", At(data, c.left), At(data, c.right)),
             data |-> data]
  ELSE PopReturn(c, data)

\* a comparison of pop has resolved
PopResume(c, data, comparison) ==
  IF c.pc = "pop_child"
  THEN PopCompareParent(
         [c EXCEPT !.greatestChild = IF comparison <= 0 THEN c.left ELSE c.right],
         data)
  ELSE IF comparison < 0
       THEN PopWhile([c EXCEPT !.parent = c.greatestChild,
                               !.right = 2 * (c.greatestChild + 1),
                               !.left = 2 * (c.greatestChild + 1) - 1],
                     swap(data, c.parent, c.greatestChild))
       ELSE PopReturn(c, data)

\* (mutant) pop on an empty heap is an error
PopStartStrict(c, data) ==
  IF Len(data) = 0
  THEN [c |-> [c EXCEPT !.pc = "done", !.threw = "RangeError"], data |-> data]
  ELSE LET size == Len(data) - 1
       IN PopWhile([c EXCEPT !.size = size, !.parent = 0, !.right = 2, !.left = 1],
                   swap(data, 0, size))

\* (mutant) the root is not swapped to the end before the sift-down
PopStartNoSwap(c, data) ==
  IF Len(data) = 0
  THEN [c |-> [c EXCEPT !.pc = "done", !.result = Undef], data |-> data]
  ELSE PopWhile([c EXCEPT !.size = Len(data) - 1, !.parent = 0, !.right = 2,
                          !.left = 1], data)

\* pop() up to its first await
PopStart(c, data) ==
  IF Len(data) = 0
  THEN [c |-> [c EXCEPT !.pc = "done", !.result = Undef], data |-> data]
  ELSE LET size == Len(data) - 1
       IN PopWhile([c EXCEPT !.size = size, !.parent = 0, !.right = 2, !.left = 1],
                   swap(data, 0, size))

\* a suspended call continues with the value its comparison resolved to
Resume(c, data, comparison) ==
  IF c.op = "push" THEN PushResume(c, data, comparison)
  ELSE PopResume(c, data, comparison)

\* the comparison a call awaits has been settled
Settled(c) == [c EXCEPT !.pending = @ - 1]

\* (mutant) a failing comparison restores the array the call started with
ThrowRollback(c, data) ==
  [c |-> [c EXCEPT !.pc = "done", !.threw = "ComparatorFailure"], data |-> c.pre]

\* (mutant) a failing comparison takes the last slot off the array
ThrowDropsLast(c, data) ==
  [c |-> [c EXCEPT !.pc = "done", !.threw = "ComparatorFailure"],
   data |-> SubSeq(data, 1, Len(data) - 1)]

\* The comparison rejects: the error leaves pop / push through the await, and
\* no catch or finally of theirs touches the array.
Throw(c, data) ==
  [c |-> [c EXCEPT !.pc = "done", !.threw = "ComparatorFailure"], data |-> data]

(* ----------------------------------------------------------- constructor *)
\* (mutant) the default ordering is ascending
ConstructorAscending(compare) ==
  LET cmp == IF compare = "undefined" THEN "ascend" ELSE compare
  IN IF TypeOf(cmp) # "function"
     THEN [threw |-> "TypeError", cmp |-> "none"]
     ELSE [threw |-> "", cmp |-> cmp]

\* (mutant) the constructor does not look at the type of its argument
ConstructorUnchecked(compare) ==
  [threw |-> "", cmp |-> IF compare = "undefined" THEN "descend" ELSE compare]

\* `constructor(compare = async (a, b) => descend(a, b))`
Constructor(compare) ==
  LET cmp == IF compare = "undefined" THEN "descend" ELSE compare
  IN IF TypeOf(cmp) # "function"
     THEN [threw |-> "TypeError", cmp |-> "none"]
     ELSE [threw |-> "", cmp |-> cmp]

(* ---------------------------------------------------------- array store *)
\* the arrays something still refers to: the heaps' backing arrays, the arrays
\* toArray() returned, and the caller's source array of a from() in flight or
\* just returned
Roots(hp, cl, la) ==
  ({hp[h].data : h \in HeapIds} \cup {hp[h].snap : h \in HeapIds}
     \cup {cl[c].ctx.srcAddr : c \in CallIds} \cup {la.ctx.srcAddr}) \ {0}

\* unreachable arrays are dropped
Gc(m, roots) == [a \in Addr |-> IF a \in roots THEN m[a] ELSE <<>>]

\* the address of a new array
Alloc(inuse) == CHOOSE a \in Addr \ inuse : \A b \in Addr \ inuse : a <= b

InUse == Roots(heap, calls, last)

Data(h) == mem[heap[h].data]

Quiescent == \A c \in CallIds : calls[c].op = "idle"

\* some heap's toArray() array is in the caller's hands
Snapped == \E h \in HeapIds : heap[h].snap # 0

\* after counts the calls made since the caller was handed a second object:
\* the heap from() returned, or the array toArray() returned
Tick == after' = IF heap[2].live \/ Snapped THEN after + 1 ELSE after

(* ---------------------------------------------------------------- state *)
Init ==
  /\ mem = [a \in Addr |-> <<>>]
  /\ heap = [h \in HeapIds |-> NoHeap]
  /\ calls = [c \in CallIds |-> IdleCall]
  /\ gen = NoGen
  /\ last = NoLast
  /\ after = 0

\* what the caller sees when call c has returned
Returned(c) ==
  [NoLast EXCEPT !.op = IF c.tag = "none" THEN c.op ELSE c.tag, !.h = c.h,
                 !.tag = c.tag, !.args = c.args, !.pre = c.pre,
                 !.result = c.result, !.threw = c.threw, !.ncmp = c.ncmp,
                 !.rest = c.values, !.index = c.index, !.ctx = c.ctx]

\* The generator after another operation on heap h.  start and yielded record
\* a drain only while nothing else touched its heap; a finished generator
\* stays finished.
Disturbed(h) ==
  IF gen.h # h THEN gen
  ELSE [gen EXCEPT !.clean = FALSE, !.start = <<>>, !.yielded = <<>>]

\* the generator after a step sr of a call on heap h
GenAfter(h, sr) ==
  IF sr.c.tag = "drain"
  THEN IF sr.c.threw # ""
       THEN [gen EXCEPT !.state = "done", !.clean = FALSE, !.start = <<>>,
                        !.yielded = <<>>]
       ELSE IF sr.c.pc = "done"
       THEN [gen EXCEPT !.state = "suspended",
                        !.yielded = IF gen.clean THEN Append(@, sr.c.result) ELSE @]
       ELSE [gen EXCEPT !.state = "running"]
  ELSE IF sr.c.op = "idle" THEN gen ELSE Disturbed(h)

\* Call id on heap h (of the heaps hp) has run up to sr: suspended or returned.
\* last is what the latest call returned, and nothing while a call is in flight.
Apply(id, h, hp, m, sr) ==
  /\ calls' = [calls EXCEPT ![id] = IF sr.c.pc = "done" THEN IdleCall ELSE sr.c]
  /\ last' = IF sr.c.pc = "done" THEN Returned(sr.c) ELSE NoLast
  /\ gen' = GenAfter(h, sr)
  /\ heap' = hp
  /\ mem' = Gc([m EXCEPT ![hp[h].data] = sr.data], Roots(hp, calls', last'))

(* -------------------------------------------------------------- actions *)
\* new BinaryHeap(arg)
Construct(h, arg) ==
  /\ ~heap[h].live
  /\ LET k == Constructor(arg)
         a == Alloc(InUse)
     IN /\ last' = [NoLast EXCEPT !.op = "new", !.h = h, !.arg = arg,
                                  !.threw = k.threw]
        /\ heap' = IF k.threw # "" THEN heap
                   ELSE [heap EXCEPT ![h] = NewHeap(a, k.cmp, NoCtx)]
        /\ mem' = Gc([mem EXCEPT ![a] = <<>>], Roots(heap', calls, last'))
  /\ Tick
  /\ UNCHANGED <<calls, gen>>

\* the heaps when a call on heap h starts
Started(h) ==
  IF \E c \in CallIds : calls[c].op # "idle" /\ calls[c].h = h
  THEN [heap EXCEPT ![h].overlaps = @ + 1]
  ELSE heap

\* heap.push(...vals), up to its first await
Push(id, h, vals) ==
  /\ calls[id].op = "idle"
  /\ heap[h].live
  /\ Len(Data(h)) + Len(vals) <= MaxLen
  /\ LET c == [IdleCall EXCEPT !.op = "push", !.h = h, !.values = vals,
                               !.args = vals, !.pre = Data(h)]
     IN Apply(id, h, Started(h), mem, PushFor(c, Data(h)))
  /\ Tick

\* heap.pop(), up to its first await
Pop(id, h) ==
  /\ calls[id].op = "idle"
  /\ heap[h].live
  /\ LET c == [IdleCall EXCEPT !.op = "pop", !.h = h, !.pre = Data(h)]
     IN Apply(id, h, Started(h), mem, PopStart(c, Data(h)))
  /\ Tick

\* the comparison call id is suspended at resolves, and the call runs on
CompareReturn(id) ==
  /\ calls[id].op # "idle"
  /\ ~Throws(heap[calls[id].h].cmp, calls[id].ca, calls[id].cb)
  /\ LET c == calls[id]
         comparison == Compare(heap[c.h].cmp, c.ca, c.cb)
     IN Apply(id, c.h, heap, mem, Resume(Settled(c), Data(c.h), comparison))
  /\ after' = IF calls[id].tag = "from" THEN 0 ELSE after

\* the comparison call id is suspended at rejects, and the call is over; a
\* from() that fails returns no heap
CompareThrow(id) ==
  /\ calls[id].op # "idle"
  /\ LET c == calls[id]
         sr == Throw(Settled(c), Data(c.h))
         hp == IF c.tag = "from" THEN [heap EXCEPT ![c.h] = NoHeap]
               ELSE [heap EXCEPT ![c.h].fails = @ + 1]
     IN /\ calls' = [calls EXCEPT ![id] = IdleCall]
        /\ last' = Returned(sr.c)
        /\ gen' = GenAfter(c.h, sr)
        /\ heap' = hp
        /\ mem' = Gc([mem EXCEPT ![heap[c.h].data] = sr.data],
                     Roots(hp, calls', last'))
  /\ UNCHANGED after

\* (mutant) peek() reads the last slot
peekLast(data) == At(data, Len(data) - 1)

\* `peek()`: `return this.#data[0]`
peek(data) == At(data, 0)

\* heap.peek()
Peek(h) ==
  /\ heap[h].live
  /\ last' = [NoLast EXCEPT !.op = "peek", !.h = h, !.pre = Data(h),
                            !.result = peek(Data(h))]
  /\ mem' = Gc(mem, Roots(heap, calls, last'))
  /\ Tick
  /\ UNCHANGED <<heap, calls, gen>>

\* (mutant) clear() cuts the array down to its first element
ClearLeavesRoot(h) ==
  /\ heap[h].live
  /\ LET a == Alloc(InUse)
     IN /\ heap' = [heap EXCEPT ![h].data = a]
        /\ last' = [NoLast EXCEPT !.op = "clear", !.h = h, !.pre = Data(h)]
        /\ mem' = Gc([mem EXCEPT ![a] = IF Data(h) = <<>> THEN <<>>
                                        ELSE <<Head(Data(h))>>],
                     Roots(heap', calls, last'))
  /\ gen' = Disturbed(h)
  /\ Tick
  /\ UNCHANGED calls

\* heap.clear(): `this.#data = []`
Clear(h) ==
  /\ heap[h].live
  /\ LET a == Alloc(InUse)
     IN /\ heap' = [heap EXCEPT ![h].data = a]
        /\ last' = [NoLast EXCEPT !.op = "clear", !.h = h, !.pre = Data(h)]
        /\ mem' = Gc([mem EXCEPT ![a] = <<>>], Roots(heap', calls, last'))
  /\ gen' = Disturbed(h)
  /\ Tick
  /\ UNCHANGED calls

\* (mutant) `return this.#data`: the heap's own array
toArrayShared(dataAddr, fresh) == dataAddr

\* `toArray()`: `return Array.from(this.#data)`, a new array at address fresh
toArray(dataAddr, fresh) == fresh

\* heap.toArray(); the caller keeps the array returned
ToArray(h) ==
  /\ heap[h].live
  /\ heap[h].snap = 0
  /\ LET a == toArray(heap[h].data, Alloc(InUse))
     IN /\ heap' = [heap EXCEPT ![h].snap = a, ![h].snapWas = Data(h)]
        /\ last' = [NoLast EXCEPT !.op = "toArray", !.h = h, !.pre = Data(h)]
        /\ mem' = Gc([mem EXCEPT ![a] = Data(h)], Roots(heap', calls, last'))
  /\ after' = 0
  /\ UNCHANGED <<calls, gen>>

\* the caller stores v at index i of the array toArray() returned; index
\* i = length appends
SnapshotWrite(h, i, v) ==
  /\ heap[h].snap # 0
  /\ LET array == mem[heap[h].snap]
         written == IF i = Len(array) THEN Append(array, v)
                    ELSE [array EXCEPT ![i + 1] = v]
     IN /\ i \in 0..Len(array)
        /\ Len(written) <= MaxLen
        /\ heap' = [heap EXCEPT ![h].snapWas = written]
        /\ last' = [NoLast EXCEPT !.op = "write", !.h = h, !.pre = Data(h),
                                  !.arg = "array"]
        /\ mem' = Gc([mem EXCEPT ![heap[h].snap] = written],
                     Roots(heap', calls, last'))
  /\ Tick
  /\ UNCHANGED <<calls, gen>>

\* `get length()`
length(data) == Len(data)

\* (mutant) a heap of one element counts as empty
isEmptyOffByOne(data) == Len(data) <= 1

\* `isEmpty()`
isEmpty(data) == Len(data) = 0

\* heap.length
Length(h) ==
  /\ heap[h].live
  /\ last' = [NoLast EXCEPT !.op = "length", !.h = h, !.pre = Data(h),
                            !.result = length(Data(h))]
  /\ mem' = Gc(mem, Roots(heap, calls, last'))
  /\ Tick
  /\ UNCHANGED <<heap, calls, gen>>

\* heap.isEmpty()
IsEmpty(h) ==
  /\ heap[h].live
  /\ last' = [NoLast EXCEPT !.op = "isEmpty", !.h = h, !.pre = Data(h),
                            !.bool = isEmpty(Data(h))]
  /\ mem' = Gc(mem, Roots(heap, calls, last'))
  /\ Tick
  /\ UNCHANGED <<heap, calls, gen>>

(* ----------------------------------------------------------------- drain *)
\* (mutant) drain() empties the heap when it is called
DrainEager(h, via) ==
  /\ heap[h].live
  /\ gen.state \in {"none", "done"}
  /\ gen' = [NoGen EXCEPT !.state = "suspended", !.h = h, !.via = via,
                          !.start = Data(h)]
  /\ mem' = [mem EXCEPT ![heap[h].data] = <<>>]
  /\ Tick
  /\ UNCHANGED <<heap, calls, last>>

\* heap.drain(), or heap[Symbol.asyncIterator]() which delegates to it: the
\* generator object is made and no code of the body runs
Drain(h, via) ==
  /\ heap[h].live
  /\ gen.state \in {"none", "done"}
  /\ gen' = [NoGen EXCEPT !.state = "suspended", !.h = h, !.via = via,
                          !.start = Data(h)]
  /\ Tick
  /\ UNCHANGED <<mem, heap, calls, last>>

\* (mutant) a finished generator runs its loop again
DrainNextResumes(id) ==
  /\ calls[id].op = "idle"
  /\ gen.state \in {"suspended", "done"}
  /\ IF isEmpty(Data(gen.h))
     THEN /\ gen' = [gen EXCEPT !.state = "done"]
          /\ last' = [NoLast EXCEPT !.op = "drain", !.tag = "drain", !.h = gen.h,
                                    !.pre = Data(gen.h), !.bool = TRUE]
          /\ mem' = Gc(mem, Roots(heap, calls, last'))
          /\ UNCHANGED <<heap, calls>>
     ELSE LET c == [IdleCall EXCEPT !.op = "pop", !.tag = "drain", !.h = gen.h,
                                    !.pre = Data(gen.h)]
          IN Apply(id, gen.h, heap, mem, PopStart(c, Data(gen.h)))
  /\ Tick

\* generator.next(): `while (!this.isEmpty()) yield await this.pop()`
DrainNext(id) ==
  /\ calls[id].op = "idle"
  /\ gen.state \in {"suspended", "done"}
  /\ IF gen.state = "done" \/ isEmpty(Data(gen.h))
     THEN /\ gen' = [gen EXCEPT !.state = "done"]
          /\ last' = [NoLast EXCEPT !.op = "drain", !.tag = "drain", !.h = gen.h,
                                    !.pre = Data(gen.h), !.bool = TRUE]
          /\ mem' = Gc(mem, Roots(heap, calls, last'))
          /\ UNCHANGED <<heap, calls>>
     ELSE LET c == [IdleCall EXCEPT !.op = "pop", !.tag = "drain", !.h = gen.h,
                                    !.pre = Data(gen.h)]
          IN Apply(id, gen.h, heap, mem, PopStart(c, Data(gen.h)))
  /\ Tick

(* ------------------------------------------------------------------ from *)
\* the transforms a caller passes as options.map: (value, index) => U
Maps == {"double", "addIndex"}

MapFn(map, value, index) ==
  CASE map = "double"   -> 2 * value
    [] map = "addIndex" -> value + index

\* what a caller passes as options.compare and options.map
FromCompareArgs == {"undefined", "object"} \cup Comparators
FromMapArgs == {"undefined"} \cup Maps

\* JavaScript truthiness of an option
Truthy(opt) == opt \notin {"undefined", "null"}

\* `Array.from(unmappedValues, options.map, options.thisArg)`
ArrayFrom(unmappedValues, map) ==
  [i \in 1..Len(unmappedValues) |-> MapFn(map, unmappedValues[i], i - 1)]

\* the calls of options.map that Array.from makes: <<value, index>> in order
MapCalls(unmappedValues) ==
  [i \in 1..Len(unmappedValues) |-> <<unmappedValues[i], i - 1>>]

\* (mutant) a source heap's ordering is not inherited
FromCompareNoInherit(kind, compare, srcCmp) ==
  IF Truthy(compare) THEN compare ELSE "undefined"

\* the argument from() constructs its result with
FromCompare(kind, compare, srcCmp) ==
  IF kind = "heap"
  THEN IF compare \notin {"undefined", "null"} THEN compare ELSE srcCmp
  ELSE IF Truthy(compare) THEN compare ELSE "undefined"

\* (mutant) a source heap is cloned whenever no compare is given
ClonePathIgnoresMap(kind, compare, map) == kind = "heap" /\ ~Truthy(compare)

\* (mutant) a new ordering function alone does not make from() push
ClonePathIgnoresCompare(kind, compare, map) == kind = "heap" /\ ~Truthy(map)

\* (mutant) from() always inserts by push
ClonePathNever(kind, compare, map) == FALSE

\* whether from() clones the source heap's array instead of pushing
ClonePath(kind, compare, map) ==
  kind = "heap" /\ ~(Truthy(compare) \/ Truthy(map))

\* (mutant) `result.#data = collection.#data`: the source's own array
CloneIntoShared(srcAddr, fresh) == srcAddr

\* `result.#data = Array.from(collection.#data)`: a new array, at address fresh
CloneInto(srcAddr, fresh) == fresh

\* the values from() pushes
FromValues(unmappedValues, map) ==
  IF Truthy(map) THEN ArrayFrom(unmappedValues, map) ELSE unmappedValues

\* BinaryHeap.from(collection, {compare, map}), up to its first await; the
\* collection is heap 1 (kind "heap") or the caller's array src (kind "raw"),
\* the result is heap 2
From(id, kind, src, compare, map) ==
  /\ calls[id].op = "idle"
  /\ ~heap[2].live
  /\ kind = "heap" => heap[1].live /\ src = <<>>
  /\ LET srcAddr == IF kind = "raw" THEN Alloc(InUse) ELSE 0
         m1 == IF kind = "raw" THEN [mem EXCEPT ![srcAddr] = src] ELSE mem
         k == Constructor(FromCompare(kind, compare, heap[1].cmp))
         fresh == Alloc(InUse \cup {srcAddr})
         clone == ClonePath(kind, compare, map)
         target == IF clone THEN CloneInto(heap[1].data, fresh) ELSE fresh
         m2 == [m1 EXCEPT ![target] = IF clone THEN Data(1) ELSE <<>>]
         unmappedValues == IF kind = "raw" THEN m1[srcAddr]
                           ELSE IF clone THEN <<>> ELSE Data(1)
         values == FromValues(unmappedValues, map)
         ctx == [srcKind |-> kind, srcHeap |-> IF kind = "heap" THEN 1 ELSE 0,
                 srcAddr |-> srcAddr,
                 src |-> IF kind = "raw" THEN src ELSE Data(1),
                 compare |-> compare, map |-> map,
                 mapCalls |-> IF Truthy(map) THEN MapCalls(unmappedValues) ELSE <<>>]
         hp == [heap EXCEPT ![2] = NewHeap(target, k.cmp, ctx)]
         c == [IdleCall EXCEPT !.op = "push", !.tag = "from", !.h = 2,
                               !.values = values, !.args = values,
                               !.pre = m2[target], !.ctx = ctx]
     IN IF k.threw # ""
        THEN /\ last' = [NoLast EXCEPT !.op = "from", !.tag = "from", !.h = 2,
                                       !.threw = k.threw, !.ctx = ctx]
             /\ mem' = Gc(m1, Roots(heap, calls, last'))
             /\ UNCHANGED <<heap, calls, gen>>
        ELSE Apply(id, 2, hp, m2, PushFor(c, m2[target]))
  /\ after' = 0

(* --------------------------------------------------------- specifications *)
\* One heap, its caller awaiting every call before making the next one.
Next ==
  \/ Quiescent /\ \E arg \in CompareArgs : Construct(1, arg)
  \/ Quiescent /\ \E vals \in SeqsUpTo(Val, MaxPush) : Push(1, 1, vals)
  \/ Quiescent /\ Pop(1, 1)
  \/ Quiescent /\ Peek(1)
  \/ Quiescent /\ Clear(1)
  \/ Quiescent /\ Length(1)
  \/ Quiescent /\ IsEmpty(1)
  \/ CompareReturn(1)

Spec == Init /\ [][Next]_vars

\* One heap that is filled value by value and drained; pushes and pops may
\* come between the steps of a drain.
NextDrain ==
  \/ Quiescent /\ \E arg \in Comparators \cup {"undefined"} : Construct(1, arg)
  \/ Quiescent /\ \E v \in Val : Push(1, 1, <<v>>)
  \/ Quiescent /\ Pop(1, 1)
  \/ Quiescent /\ \E via \in {"drain", "asyncIterator"} : Drain(1, via)
  \/ Quiescent /\ DrainNext(1)
  \/ CompareReturn(1)

SpecDrain == Init /\ [][NextDrain]_vars

\* from() builds heap 2 from an array of the caller, or from heap 1 once that
\* is made and filled with up to MaxSrc values; up to MaxAfter calls on the
\* heaps follow.
CanCall == Quiescent /\ heap[2].live /\ after < MaxAfter

\* heap 1 is still being made and filled
Filling == Quiescent /\ ~heap[2].live

NextFrom ==
  \/ /\ Filling /\ last.op = "none"
     /\ \E arg \in Comparators \cup {"undefined"} : Construct(1, arg)
  \/ /\ Filling /\ heap[1].live
     /\ \E vals \in SeqsUpTo(Val, MaxPush) :
          Len(Data(1)) + Len(vals) <= MaxSrc /\ Push(1, 1, vals)
  \/ Filling /\ Pop(1, 1)
  \/ /\ Filling
     /\ \E compare \in FromCompareArgs, map \in FromMapArgs :
          From(1, "heap", <<>>, compare, map)
  \/ /\ Filling /\ ~heap[1].live /\ last.op = "none"
     /\ \E src \in SeqsUpTo(Val, MaxSrc), compare \in FromCompareArgs,
           map \in FromMapArgs :
          From(1, "raw", src, compare, map)
  \/ CanCall /\ \E h \in HeapIds, v \in Val : Push(1, h, <<v>>)
  \/ CanCall /\ \E h \in HeapIds : Pop(1, h)
  \/ CanCall /\ \E h \in HeapIds : Clear(h)
  \/ CompareReturn(1)

SpecFrom == Init /\ [][NextFrom]_vars

\* no call on heap 1 has failed, and from() has not been called
Sound == Filling /\ heap[1].fails = 0

\* One heap whose comparator rejects one comparison; the caller then rebuilds
\* the heap, if it holds MaxSrc elements or fewer, with from(), all of whose
\* comparisons resolve.
NextFail ==
  \/ /\ Sound /\ last.op = "none"
     /\ \E arg \in Comparators \cup {"undefined"} : Construct(1, arg)
  \/ Sound /\ \E vals \in SeqsUpTo(Val, MaxPush) : Push(1, 1, vals)
  \/ Sound /\ Pop(1, 1)
  \/ /\ Filling /\ heap[1].live /\ heap[1].fails > 0
     /\ Len(Data(1)) <= MaxSrc
     /\ \E compare \in FromCompareArgs, map \in FromMapArgs :
          From(1, "heap", <<>>, compare, map)
  \/ CompareReturn(1)
  \/ calls[1].tag # "from" /\ CompareThrow(1)
SpecFail == Init /\ [][NextFail]_vars

\* One heap, its caller awaiting every push and pop, and every comparison
\* returning: the event loop runs the continuation of a settled await.
NextCount ==
  \/ /\ Quiescent /\ last.op = "none"
     /\ \E arg \in Comparators \cup {"undefined"} : Construct(1, arg)
  \/ Quiescent /\ \E vals \in SeqsUpTo(Val, MaxPush) : Push(1, 1, vals)
  \/ Quiescent /\ Pop(1, 1)
  \/ CompareReturn(1)
SpecCount == Init /\ [][NextCount]_vars /\ WF_vars(CompareReturn(1))

\* a comparison of call id that throws on an undefined element
TypeErrorIn(id) ==
  /\ calls[id].op # "idle"
  /\ Throws(heap[calls[id].h].cmp, calls[id].ca, calls[id].cb)
  /\ CompareThrow(id)

\* no call on heap 1 has overlapped another
Serial == heap[1].overlaps = 0

\* One heap filled by awaited calls, then a pop that the caller does not await
\* before it pushes: the push starts while the pop is suspended, and the two
\* run on in any order.
NextRace ==
  \/ /\ Quiescent /\ last.op = "none"
     /\ \E arg \in Comparators \cup {"undefined"} : Construct(1, arg)
  \/ Quiescent /\ Serial /\ \E v \in Val : Push(1, 1, <<v>>)
  \/ Quiescent /\ Serial /\ Pop(1, 1)
  \/ /\ calls[1].op = "pop" /\ calls[2].op = "idle" /\ Serial
     /\ \E v \in Val : Push(2, 1, <<v>>)
  \/ \E id \in CallIds : CompareReturn(id)
  \/ \E id \in CallIds : TypeErrorIn(id)
SpecRace == Init /\ [][NextRace]_vars

\* One heap filled with up to MaxSrc elements by awaited pushes, then a push
\* that the caller does not await before it pushes again: the second push
\* starts while the first is suspended, and the two run on in any order.
NextPushes ==
  \/ /\ Quiescent /\ last.op = "none"
     /\ \E arg \in Comparators \cup {"undefined"} : Construct(1, arg)
  \/ /\ Quiescent /\ Serial /\ heap[1].live /\ Len(Data(1)) < MaxSrc
     /\ \E v \in Val : Push(1, 1, <<v>>)
  \/ /\ Quiescent /\ Serial /\ heap[1].live /\ Len(Data(1)) = MaxSrc
     /\ \E vals \in SeqsUpTo(Val, MaxPush) : Push(1, 1, vals)
  \/ /\ calls[1].op = "push" /\ calls[2].op = "idle" /\ Serial
     /\ \E v \in Val : Push(2, 1, <<v>>)
  \/ \E id \in CallIds : CompareReturn(id)
SpecPushes == Init /\ [][NextPushes]_vars

\* One heap, its caller awaiting every push and pop; one comparison in its
\* life rejects, and the caller goes on using the heap, pushing one value at
\* a time.
NextKeep ==
  \/ /\ Quiescent /\ last.op = "none"
     /\ \E arg \in Comparators \cup {"undefined"} : Construct(1, arg)
  \/ /\ Quiescent /\ heap[1].fails = 0
     /\ \E vals \in SeqsUpTo(Val, MaxPush) : Push(1, 1, vals)
  \/ /\ Quiescent /\ heap[1].fails > 0
     /\ \E v \in Val : Push(1, 1, <<v>>)
  \/ Quiescent /\ Pop(1, 1)
  \/ CompareReturn(1)
  \/ heap[1].fails = 0 /\ CompareThrow(1)
SpecKeep == Init /\ [][NextKeep]_vars

\* the caller may make a call: every call before toArray(), MaxAfter after it
CanTouch == Quiescent /\ (Snapped => after < MaxAfter)

\* One heap and the array its toArray() returned, which the caller writes to,
\* at its first index or past its last.
NextArray ==
  \/ /\ Quiescent /\ last.op = "none"
     /\ \E arg \in Comparators \cup {"undefined"} : Construct(1, arg)
  \/ CanTouch /\ \E v \in Val : Push(1, 1, <<v>>)
  \/ CanTouch /\ Pop(1, 1)
  \/ CanTouch /\ Clear(1)
  \/ Quiescent /\ ToArray(1)
  \/ /\ CanTouch /\ Snapped
     /\ \E i \in {0, Len(mem[heap[1].snap])}, v \in Val : SnapshotWrite(1, i, v)
  \/ CompareReturn(1)
SpecArray == Init /\ [][NextArray]_vars

\* One heap whose caller awaits every push, pop, drain step and from(), and
\* reads the heap while the call is suspended at a comparison.
NextAwait ==
  \/ /\ Filling /\ last.op = "none"
     /\ \E arg \in Comparators \cup {"undefined"} : Construct(1, arg)
  \/ Filling /\ \E vals \in SeqsUpTo(Val, MaxPush) : Push(1, 1, vals)
  \/ Filling /\ Pop(1, 1)
  \/ Filling /\ gen.state = "none" /\ Drain(1, "drain")
  \/ Filling /\ DrainNext(1)
  \/ /\ Filling /\ ~heap[1].live /\ last.op = "none"
     /\ \E src \in SeqsUpTo(Val, MaxSrc) :
          From(1, "raw", src, "undefined", "undefined")
  \/ ~Quiescent /\ heap[1].live /\ last.op = "none" /\ Peek(1)
  \/ ~Quiescent /\ heap[1].live /\ last.op = "none" /\ Length(1)
  \/ CompareReturn(1)
SpecAwait == Init /\ [][NextAwait]_vars

(* ------------------------------------------------- calls run to the end *)
RECURSIVE Settle(_, _)

\* a call awaited until it returns: every comparison resolves in turn
Settle(sr, cmp) ==
  IF sr.c.pc = "done" THEN sr
  ELSE Settle(Resume(Settled(sr.c), sr.data, Compare(cmp, sr.c.ca, sr.c.cb)),
              cmp)

RECURSIVE Advance(_, _, _)

\* a call after k more of its comparisons have resolved
Advance(sr, cmp, k) ==
  IF k = 0 \/ sr.c.pc = "done" THEN sr
  ELSE Advance(Resume(Settled(sr.c), sr.data, Compare(cmp, sr.c.ca, sr.c.cb)),
               cmp, k - 1)

\* heap.pop() on a heap holding data, suspended at its k-th comparison
PopUpTo(data, cmp, k) ==
  Advance(PopStart([IdleCall EXCEPT !.op = "pop"], data), cmp, k - 1)

\* heap.push(...vals) on a heap holding data, suspended at its k-th comparison
PushUpTo(data, vals, cmp, k) ==
  Advance(PushFor([IdleCall EXCEPT !.op = "push", !.values = vals,
                                   !.args = vals], data), cmp, k - 1)

\* `await heap.pop()` on a heap holding data
PopAwaited(data, cmp) ==
  Settle(PopStart([IdleCall EXCEPT !.op = "pop"], data), cmp)

\* `await heap.push(...vals)` on a heap holding data
PushAwaited(data, vals, cmp) ==
  Settle(PushFor([IdleCall EXCEPT !.op = "push", !.values = vals, !.args = vals],
                 data), cmp)

RECURSIVE PopAll(_, _)

\* what repeated `await heap.pop()` return until the heap is empty
PopAll(data, cmp) ==
  IF data = <<>> THEN <<>>
  ELSE LET r == PopAwaited(data, cmp)
       IN <<r.c.result>> \o PopAll(r.data, cmp)

RECURSIVE PushEach(_, _, _)

\* the backing array after one `await heap.push(v)` per value of vals
PushEach(data, vals, cmp) ==
  IF vals = <<>> THEN data
  ELSE PushEach(PushAwaited(data, <<Head(vals)>>, cmp).data, Tail(vals), cmp)

(* ---------------------------------------------------------------- claims *)
\* the parent of a non-root index, as the data model states it
ParentOf(i) == ((i + 1) \div 2) - 1

\* no child is strictly nearer the root than its parent
HeapProperty(data, cmp) ==
  \A i \in 1..(Len(data) - 1) :
    Compare(cmp, At(data, i), At(data, ParentOf(i))) >= 0

\* the elements of a sequence, with their multiplicities
BagOf(seq) ==
  LET vals == {seq[i] : i \in DOMAIN seq}
  IN [v \in vals |-> Cardinality({i \in DOMAIN seq : seq[i] = v})]

\* no element of a sequence is strictly nearer the root than an earlier one
BestFirst(seq, cmp) ==
  \A i, j \in DOMAIN seq : i < j => Compare(cmp, seq[j], seq[i]) >= 0

\* C1: whenever no call is in flight on a heap built by completed push and pop
\* calls, compare(data[i], data[parent(i)]) >= 0 for every non-root index i.
C1_HeapOrder ==
  \A h \in HeapIds :
    heap[h].live /\ Quiescent => HeapProperty(Data(h), heap[h].cmp)

\* a pop of a full heap that sifted the relocated element down two levels
C1_Witness ==
  /\ last.op = "pop" /\ Len(last.pre) = MaxLen /\ last.ncmp >= 3
  /\ Data(1) # SubSeq(last.pre, 1, MaxLen - 1)
  /\ HeapProperty(Data(1), heap[1].cmp)

\* C2: a pop of a non-empty heap returns the element that was at index 0 (what
\* peek returned before), removes exactly that element, and no element the
\* heap held is strictly nearer the root than it.
C2_PopReturnsRoot ==
  last.op = "pop" /\ last.pre # <<>> =>
    /\ last.result = At(last.pre, 0)
    /\ BagOf(Data(last.h)) (+) BagOf(<<last.result>>) = BagOf(last.pre)
    /\ \A i \in DOMAIN last.pre :
         Compare(heap[last.h].cmp, last.pre[i], last.result) >= 0

\* a pop that returned the root while another element with the same key stays
C2_Witness ==
  /\ last.op = "pop" /\ Len(last.pre) >= 4 /\ last.ncmp >= 2
  /\ last.result = At(last.pre, 0)
  /\ \E i \in DOMAIN Data(1) :
       /\ Data(1)[i] # last.result
       /\ Compare(heap[1].cmp, Data(1)[i], last.result) = 0

\* C4: a push of k values on a heap of length n returns n + k and leaves
\* length n + k; a pop of a non-empty heap leaves length n - 1; isEmpty() is
\* true exactly when length is 0.
C4_SizeAccounting ==
  /\ last.op = "push" =>
       /\ last.result = Len(last.pre) + Len(last.args)
       /\ Len(Data(last.h)) = Len(last.pre) + Len(last.args)
  /\ last.op = "pop" /\ last.pre # <<>> =>
       Len(Data(last.h)) = Len(last.pre) - 1
  /\ last.op = "length" => last.result = Len(Data(last.h))
  /\ last.op = "isEmpty" => (last.bool <=> Len(Data(last.h)) = 0)

\* a push of two values onto a heap that already held two
C4_Witness ==
  /\ last.op = "push" /\ Len(last.args) = 2 /\ Len(last.pre) >= 2
  /\ last.result = Len(last.pre) + 2

\* C5: pop() and peek() on an empty heap return undefined, raise nothing, make
\* no comparison and leave the heap empty.
C5_EmptyAccess ==
  last.op \in {"pop", "peek"} /\ last.pre = <<>> =>
    /\ last.result = Undef
    /\ last.threw = ""
    /\ last.ncmp = 0
    /\ Data(last.h) = <<>>

\* a pop of a heap that is empty
C5_Witness == last.op = "pop" /\ last.pre = <<>> /\ last.result = Undef

\* C6: `new BinaryHeap(arg)` with an argument that is supplied and is not a
\* function throws a TypeError, and no heap is made.
C6_ConstructorRejects ==
  last.op = "new" /\ last.arg \in NonFunctions =>
    /\ last.threw = "TypeError"
    /\ ~heap[last.h].live
    /\ \A a \in Addr : mem[a] = <<>>

\* the constructor was given an object that is no function
C6_Witness == last.op = "new" /\ last.arg = "object" /\ last.threw = "TypeError"

\* C3: a drain that nothing else interfered with yields, by the time it is
\* done, as many elements as the heap held, the ones repeated pop calls would
\* return, best first, and leaves the heap empty.
C3_DrainYieldsAll ==
  gen.state = "done" /\ gen.clean =>
    /\ Len(gen.yielded) = Len(gen.start)
    /\ gen.yielded = PopAll(gen.start, heap[gen.h].cmp)
    /\ BestFirst(gen.yielded, heap[gen.h].cmp)
    /\ BagOf(gen.yielded) = BagOf(gen.start)
    /\ Data(gen.h) = <<>>
    /\ isEmpty(Data(gen.h)) /\ length(Data(gen.h)) = 0

\* a full heap drained by iterating it
C3_Witness ==
  /\ gen.state = "done" /\ gen.clean /\ gen.via = "asyncIterator"
  /\ Len(gen.start) = MaxLen /\ Len(gen.yielded) = MaxLen

\* a from() call has returned its heap
FromDone == last.op = "from" /\ last.threw = ""

\* the source elements mapped as the caller's transform maps them
Mapped(src, map) == [i \in 1..Len(src) |-> MapFn(map, src[i], i - 1)]

\* C7: from(array) with no options leaves the backing array that a new
\* default heap has after push(...array), and after one push per element, so
\* the three drain in the same order.
C7_FromRawIsPush ==
  FromDone /\ last.ctx.srcKind = "raw" /\ last.ctx.compare = "undefined"
           /\ last.ctx.map = "undefined" =>
    /\ heap[2].cmp = "descend"
    /\ Data(2) = PushAwaited(<<>>, last.ctx.src, "descend").data
    /\ Data(2) = PushEach(<<>>, last.ctx.src, "descend")
    /\ PopAll(Data(2), heap[2].cmp)
         = PopAll(PushEach(<<>>, last.ctx.src, "descend"), "descend")

\* from() of a full array whose values had to be reordered
C7_Witness ==
  /\ FromDone /\ last.ctx.srcKind = "raw" /\ last.ctx.compare = "undefined"
  /\ last.ctx.map = "undefined" /\ Len(last.ctx.src) = MaxSrc
  /\ Data(2) # last.ctx.src /\ last.ncmp >= MaxSrc - 1

\* the ordering function the options and the source call for
ExpectedCmp(ctx) ==
  IF ctx.compare \in Comparators THEN ctx.compare
  ELSE IF ctx.srcKind = "heap" THEN heap[ctx.srcHeap].cmp
  ELSE "descend"

\* C8: the heap from() returns orders by options.compare when given, else by
\* the source heap's function, else by descend; later pushes and pops on it
\* keep the heap property under that function and pop its best element.
C8_FromOrdering ==
  heap[2].live =>
    /\ heap[2].cmp = ExpectedCmp(heap[2].ctx)
    /\ Quiescent => HeapProperty(Data(2), ExpectedCmp(heap[2].ctx))
    /\ last.op = "pop" /\ last.h = 2 =>
         \A i \in DOMAIN last.pre :
           Compare(ExpectedCmp(heap[2].ctx), last.pre[i], last.result) >= 0

\* a pop on a heap made with only a map from an ascending heap
C8_Witness ==
  /\ last.op = "pop" /\ last.h = 2 /\ Len(last.pre) >= 3
  /\ heap[2].ctx.srcKind = "heap" /\ heap[2].ctx.compare = "undefined"
  /\ heap[2].ctx.map = "double" /\ heap[1].cmp = "ascend"
  /\ \E i \in DOMAIN last.pre : last.pre[i] > last.result

\* C9: from() with a map calls it once per source element, with the element
\* and its index, before anything is inserted; the heap returned has the
\* source's length, holds the mapped values and satisfies the heap property.
C9_FromMap ==
  /\ \A c \in CallIds :
       calls[c].tag = "from" /\ Truthy(calls[c].ctx.map) =>
         /\ calls[c].ctx.mapCalls = MapCalls(calls[c].ctx.src)
         /\ BagOf(Data(2)) (+) BagOf(calls[c].values)
              = BagOf(Mapped(calls[c].ctx.src, calls[c].ctx.map))
  /\ FromDone /\ Truthy(last.ctx.map) =>
       /\ last.ctx.mapCalls = MapCalls(last.ctx.src)
       /\ Len(Data(2)) = Len(last.ctx.src)
       /\ BagOf(Data(2)) = BagOf(Mapped(last.ctx.src, last.ctx.map))
       /\ HeapProperty(Data(2), heap[2].cmp)

\* a heap of MaxSrc elements copied with a map that uses the index
C9_Witness ==
  /\ FromDone /\ last.ctx.srcKind = "heap" /\ last.ctx.map = "addIndex"
  /\ last.ctx.compare = "undefined" /\ Len(last.ctx.src) = MaxSrc
  /\ Data(2) # last.ctx.src

\* the source of a from() call is as it was when from() was called
SourceKept(ctx) ==
  IF ctx.srcKind = "raw" THEN mem[ctx.srcAddr] = ctx.src
  ELSE /\ heap[ctx.srcHeap].live
       /\ Data(ctx.srcHeap) = ctx.src

C10_SourceKept ==
  /\ \A c \in CallIds : calls[c].tag = "from" => SourceKept(calls[c].ctx)
  /\ last.op = "from" => SourceKept(last.ctx)

\* the two heaps have different backing arrays, and neither has the caller's
C10_NoSharing ==
  heap[2].live =>
    /\ heap[1].live => heap[1].data # heap[2].data
    /\ \A c \in CallIds : calls[c].ctx.srcAddr # heap[2].data
    /\ last.ctx.srcAddr # heap[2].data

\* the heap a step works on: that of the call in flight or just returned
StepHeap == IF calls[1].op # "idle" THEN calls[1].h ELSE last.h

\* a step on one heap leaves the other heap as it was
C10_Frame ==
  \A h \in HeapIds :
    heap[h].live /\ StepHeap' # h =>
      /\ heap'[h] = heap[h]
      /\ mem'[heap[h].data] = mem[heap[h].data]

\* C10: from() leaves its source (heap or array) as it was, for every
\* combination of options, and the heap it returns shares nothing with the
\* source heap: a call on either leaves the other's contents unchanged.
C10_FromFrame == [](C10_SourceKept /\ C10_NoSharing) /\ [][C10_Frame]_vars

\* a push on the plain copy of a heap, the source still as it was copied
C10_Witness ==
  /\ last.op = "push" /\ last.h = 2 /\ heap[2].ctx.srcKind = "heap"
  /\ heap[2].ctx.compare = "undefined" /\ heap[2].ctx.map = "undefined"
  /\ Len(heap[2].ctx.src) = MaxSrc
  /\ Data(1) = heap[2].ctx.src /\ Len(Data(2)) = MaxSrc + 1

(* --------------------------------------------------- comparator failures *)
\* the latest call was aborted by a failing comparison
Failed(op) == last.op = op /\ last.threw = "ComparatorFailure"

\* C11: when a comparison fails during pop(), the failure propagates and
\* nothing is rolled back or removed: the array is the one the pop had reached
\* when it issued that comparison (the swap of index 0 with the last index and
\* every later swap in place), its length is unchanged, it holds the same
\* elements, and the original root is still stored, in the last slot.
C11_PopFailure ==
  Failed("pop") =>
    LET data == Data(last.h)
        pre == last.pre
    IN /\ last.result = Undef
       /\ data = PopUpTo(pre, heap[last.h].cmp, last.ncmp).data
       /\ Len(data) = Len(pre)
       /\ BagOf(data) = BagOf(pre)
       /\ At(data, Len(pre) - 1) = At(pre, 0)
       /\ last.ncmp = 1 => data = swap(pre, 0, Len(pre) - 1)

\* a pop that failed at its second comparison or later and left an array that
\* violates the heap property
C11_Witness ==
  /\ Failed("pop") /\ last.ncmp >= 2
  /\ HeapProperty(last.pre, heap[last.h].cmp)
  /\ ~HeapProperty(Data(last.h), heap[last.h].cmp)

\* C12: when a comparison fails during push(v1, ..., vk) while vj is sifted
\* up, the failure propagates, v1..v(j-1) stay fully inserted, vj stays in the
\* array at the index it had reached, v(j+1)..vk are never appended, and the
\* length is the previous length plus j.
C12_PushFailure ==
  Failed("push") =>
    LET data == Data(last.h)
        pre == last.pre
        args == last.args
        cmp == heap[last.h].cmp
        j == Len(args) - Len(last.rest)
        inserted == PushAwaited(pre, SubSeq(args, 1, j - 1), cmp).data
    IN /\ j \in 1..Len(args)
       /\ last.rest = SubSeq(args, j + 1, Len(args))
       /\ Len(data) = Len(pre) + j
       /\ BagOf(data) = BagOf(pre \o SubSeq(args, 1, j))
       /\ At(data, last.index) = args[j]
       /\ \E m \in 1..MaxLen :
            LET reached == PushUpTo(inserted, <<args[j]>>, cmp, m)
            IN reached.data = data /\ reached.c.index = last.index
       /\ data = PushUpTo(pre, args, cmp, last.ncmp).data

\* a push of two values that failed at the second comparison made for the
\* first value, which had moved up by then, with the second value not appended
C12_Witness ==
  /\ Failed("push") /\ Len(last.args) = 2 /\ Len(last.rest) = 1
  /\ last.ncmp = 2 /\ last.index < Len(last.pre)
  /\ Len(Data(last.h)) = Len(last.pre) + 1

\* from() has returned a heap made from heap 1, which a failed call had left
\* violating the heap property
Rebuilt ==
  /\ FromDone /\ last.ctx.srcKind = "heap" /\ heap[1].fails > 0
  /\ ~HeapProperty(last.ctx.src, heap[1].cmp)

\* the elements from() is to put in the new heap
Elements(ctx) == IF Truthy(ctx.map) THEN Mapped(ctx.src, ctx.map) ELSE ctx.src

\* from() was called with an option that makes it insert by push
Reinserted(ctx) == Truthy(ctx.compare) \/ Truthy(ctx.map)

\* C13 as stated: from(heap, options?) of a heap that a comparator failure
\* left violating the heap property, with comparisons that no longer fail,
\* returns a heap that holds the source's elements (mapped, when a map is
\* given) and satisfies the heap property.
C13_RebuildAnyOptions ==
  Rebuilt =>
    /\ BagOf(Data(2)) = BagOf(Elements(last.ctx))
    /\ HeapProperty(Data(2), heap[2].cmp)

\* C13, amended: such a from() returns a heap that holds the source's elements
\* (mapped, when a map is given); the heap satisfies the heap property when
\* options.compare or options.map is given, and when neither is given its
\* array is the source's layout copied as it is, which violates the heap
\* property under the inherited ordering function as the source does.
C13_RebuildWithOptions ==
  Rebuilt =>
    /\ BagOf(Data(2)) = BagOf(Elements(last.ctx))
    /\ Reinserted(last.ctx) => HeapProperty(Data(2), heap[2].cmp)
    /\ ~Reinserted(last.ctx) =>
         /\ Data(2) = last.ctx.src
         /\ heap[2].cmp = heap[1].cmp
         /\ last.ncmp = 0
         /\ ~HeapProperty(Data(2), heap[2].cmp)

\* a heap of MaxSrc elements left out of order by a failed call and rebuilt
\* under its own ordering function given again as options.compare
C13_Witness ==
  /\ Rebuilt /\ last.ctx.compare = heap[1].cmp /\ last.ctx.map = "undefined"
  /\ Len(Data(2)) = MaxSrc /\ Data(2) # last.ctx.src
  /\ HeapProperty(Data(2), heap[2].cmp)

(* ------------------------------------------------------- drain, step by step *)
\* while nothing but the drain touches the heap: with k values delivered out
\* of n the heap holds n - k elements, the delivered ones are the first k that
\* repeated pops return, and peek() is the next of them
C14_Delivered ==
  gen.clean /\ gen.state # "none" =>
    LET data == Data(gen.h)
        n == Len(gen.start)
        k == Len(gen.yielded)
        all == PopAll(gen.start, heap[gen.h].cmp)
    IN /\ k <= n
       /\ length(data) = n - k
       /\ gen.yielded = SubSeq(all, 1, k)
       /\ gen.state # "running" =>
            At(data, 0) = IF k < n THEN all[k + 1] ELSE Undef
       /\ k = 0 /\ gen.state # "running" => data = gen.start

\* a step of a generator that delivers a value delivers one and removes one
\* element
C14_OnePop ==
  /\ gen.state \in {"suspended", "running"}
  /\ gen.clean /\ gen'.clean /\ gen'.yielded # gen.yielded
  =>
    /\ Len(gen'.yielded) = Len(gen.yielded) + 1
    /\ Len(Data(gen.h)') = Len(Data(gen.h)) - 1
    /\ calls[1].tag = "drain" \/ last'.tag = "drain"

\* C14: draining is lazy, one pop per value delivered: when the k-th value of
\* a drain or iteration over a heap of n elements has been delivered and
\* nothing else ran, the heap holds n - k elements and peek() is the value
\* delivered next (absent when k = n); a drain never advanced removes nothing.
C14_DrainLazy == []C14_Delivered /\ [][C14_OnePop]_vars

\* two values of a full heap delivered, the third at the root
C14_Witness ==
  /\ gen.clean /\ gen.state = "suspended"
  /\ Len(gen.start) = MaxLen /\ Len(gen.yielded) = 2
  /\ Len(Data(gen.h)) = MaxLen - 2
  /\ At(Data(gen.h), 0) = PopAll(gen.start, heap[gen.h].cmp)[3]

(* ------------------------------------------------------------- observers *)
\* what peek() returned is the element at index 0 of the array, which is as
\* it was before the call; no comparison was made; an awaited pop() would
\* return that element
C15_PeekView ==
  last.op = "peek" =>
    LET data == Data(last.h)
    IN /\ last.result = At(data, 0)
       /\ data = last.pre
       /\ last.ncmp = 0 /\ last.threw = ""
       /\ PopAwaited(data, heap[last.h].cmp).c.result = last.result

\* a peek() changes neither the array nor the heap; a peek() straight after
\* a peek() returns the same element, and so does a pop() straight after it
C15_PeekStep ==
  /\ last'.op = "peek" =>
       /\ mem'[heap'[last'.h].data] = mem[heap[last'.h].data]
       /\ heap' = heap /\ calls' = calls
  /\ last.op = "peek" /\ last'.op \in {"peek", "pop"} =>
       last'.result = last.result

\* C15: peek() returns the element at index 0 without removing it, without a
\* comparison and without changing the backing array; consecutive peeks
\* return the same element, which is the one the next pop() returns.
C15_PeekFrame == []C15_PeekView /\ [][C15_PeekStep]_vars

\* a peek() at a heap of three or more elements whose last differs from its
\* first
C15_Witness ==
  /\ last.op = "peek" /\ Len(last.pre) >= 3
  /\ last.result = At(last.pre, 0)
  /\ At(last.pre, Len(last.pre) - 1) # last.result

\* C16: toArray() returns a copy of the backing array, same elements at the
\* same indexes, and does not change the heap; the copy is a snapshot: later
\* push, pop and clear on the heap do not change it, and writing to it does
\* not change the heap.
C16_ToArraySnapshot ==
  /\ last.op = "toArray" =>
       /\ mem[heap[last.h].snap] = Data(last.h)
       /\ Data(last.h) = last.pre
       /\ last.ncmp = 0 /\ last.threw = ""
  /\ \A h \in HeapIds :
       heap[h].snap # 0 =>
         /\ heap[h].snap # heap[h].data
         /\ mem[heap[h].snap] = heap[h].snapWas
  /\ last.op = "write" => Data(last.h) = last.pre

\* a pop of a heap of three or more elements after toArray(), the array
\* returned still holding all of them
C16_Witness ==
  /\ last.op = "pop" /\ heap[1].snap # 0 /\ Len(last.pre) >= 3
  /\ mem[heap[1].snap] = last.pre
  /\ Data(1) # last.pre

\* after clear() the heap is empty to every observer, and after any push the
\* array holds what it held before the call and the values pushed, in heap
\* order
C17_Cleared ==
  /\ last.op = "clear" =>
       LET data == Data(last.h)
       IN /\ data = <<>>
          /\ length(data) = 0 /\ isEmpty(data)
          /\ peek(data) = Undef
          /\ last.threw = "" /\ last.ncmp = 0
          /\ heap[last.h].live
  /\ last.op = "push" =>
       /\ BagOf(Data(last.h)) = BagOf(last.pre \o last.args)
       /\ HeapProperty(Data(last.h), heap[last.h].cmp)

\* clear() keeps the ordering function, and the push that follows it starts
\* from the empty array
C17_ClearStep ==
  /\ last'.op = "clear" => heap'[last'.h].cmp = heap[last'.h].cmp
  /\ last.op = "clear" /\ calls'[1].op = "push" => calls'[1].pre = <<>>
  /\ last.op = "clear" /\ last'.op = "push" =>
       /\ last'.pre = <<>>
       /\ BagOf(mem'[heap'[last'.h].data]) = BagOf(last'.args)

\* C17: clear() with no call in flight leaves the heap empty (length 0,
\* isEmpty() true, peek() undefined, toArray() empty) and keeps the ordering
\* function; pushes after it build a heap that satisfies the heap property and
\* holds only the values pushed after the clear().
C17_ClearEmpties == []C17_Cleared /\ [][C17_ClearStep]_vars

\* clear() of a heap of three or more elements
C17_Witness ==
  /\ last.op = "clear" /\ Len(last.pre) >= 3
  /\ Data(last.h) = <<>> /\ heap[last.h].cmp = "ascend"

(* ------------------------------------------------------- one await at a time *)
\* a call in flight waits for one comparison, a call that is not waits for
\* none; a push in flight has appended the values it has taken and no other
C18_OneOutstanding ==
  \A id \in CallIds :
    LET c == calls[id]
    IN /\ c.op = "idle" => c.pending = 0
       /\ c.op # "idle" => c.pending = 1 /\ c.ncmp >= 1
       /\ c.op = "push" =>
            /\ Len(c.values) < Len(c.args)
            /\ Len(Data(c.h)) = Len(c.pre) + Len(c.args) - Len(c.values)
       /\ c.op = "pop" => Len(Data(c.h)) = Len(c.pre)

\* a call that goes on after a comparison returned has issued one more and
\* taken at most one more value; while its comparison is outstanding the call
\* leaves the array as it is
C18_Step ==
  \A id \in CallIds :
    LET c == calls[id]
        d == calls'[id]
    IN /\ c.op # "idle" /\ d.op # "idle" /\ d # c =>
            /\ d.ncmp = c.ncmp + 1
            /\ Len(d.values) \in {Len(c.values), Len(c.values) - 1}
       /\ c.op # "idle" /\ d = c =>
            mem'[heap'[c.h].data] = mem[heap[c.h].data]

\* C18: within one push, pop, drain step or from() at most one comparison is
\* outstanding at any instant: the next comparison is issued, and the next
\* value of a push appended, only after the previous comparison has returned,
\* and the call does not modify the array while its comparison is outstanding.
C18_SerialComparisons == []C18_OneOutstanding /\ [][C18_Step]_vars

\* the caller reads the heap while a push of two values, one of them appended
\* and one still to come, waits for its second comparison
C18_Witness ==
  /\ calls[1].op = "push" /\ calls[1].ncmp = 2 /\ Len(calls[1].values) = 1
  /\ last.op = "length" /\ last.result = Len(calls[1].pre) + 1

(* -------------------------------------------------------- the copy of a heap *)
\* C19: from(heap) with neither compare nor map makes no comparison and
\* returns a heap whose array equals the source's element for element, under
\* the source's ordering function; when the source satisfies the heap property
\* so does the copy, and draining the copy gives what draining the source
\* gives.
C19_CheapCopy ==
  /\ \A id \in CallIds :
       calls[id].tag = "from" /\ calls[id].ctx.srcKind = "heap" =>
         Reinserted(calls[id].ctx)
  /\ FromDone /\ last.ctx.srcKind = "heap" /\ ~Reinserted(last.ctx) =>
       LET src == last.ctx.src
       IN /\ last.ncmp = 0
          /\ Data(2) = src
          /\ Data(1) = src
          /\ heap[2].cmp = heap[1].cmp
          /\ HeapProperty(src, heap[1].cmp) => HeapProperty(Data(2), heap[2].cmp)
          /\ PopAll(Data(2), heap[2].cmp) = PopAll(src, heap[1].cmp)

\* a copy of a full ascending heap whose array is not sorted
C19_Witness ==
  /\ FromDone /\ last.ctx.srcKind = "heap" /\ ~Reinserted(last.ctx)
  /\ Len(last.ctx.src) = MaxSrc /\ heap[1].cmp = "ascend"
  /\ Data(2) = last.ctx.src /\ last.ncmp = 0
  /\ PopAll(Data(2), heap[2].cmp) # Data(2)

(* ------------------------------------------------------------------- ties *)
\* the comparison call c waits for compares its two elements equal
Tie(c) == c.op # "idle" /\ Compare(heap[c.h].cmp, c.ca, c.cb) = 0

\* every two elements of seq compare equal
AllTie(seq, cmp) ==
  \A i, j \in DOMAIN seq : Compare(cmp, seq[i], seq[j]) = 0

\* a comparison of 0 swaps nothing: push leaves the new element below its
\* parent, pop leaves the relocated element above its child and returns, and
\* of two equal children the left one is chosen; a pop that has no right child
\* to look at chooses the left one with the one comparison against the parent
C20_TieStep ==
  LET c == calls[1]
      d == calls'[1]
      data == mem[heap[c.h].data]
      after2 == mem'[heap'[c.h].data]
  IN /\ Tie(c) /\ vars' # vars =>
          /\ c.op = "push" =>
               /\ SubSeq(after2, 1, Len(data)) = data
               /\ At(after2, c.index) = c.ca /\ At(after2, c.parent) = c.cb
          /\ c.pc = "pop_parent" =>
               /\ after2 = SubSeq(data, 1, Len(data) - 1)
               /\ d.op = "idle"
               /\ last'.result = At(data, Len(data) - 1)
          /\ c.pc = "pop_child" =>
               /\ after2 = data
               /\ d.pc = "pop_parent" /\ d.greatestChild = c.left
     /\ d.pc = "pop_parent" /\ d.right >= d.size /\ d # c =>
          /\ c.pc # "pop_child"
          /\ d.ncmp = c.ncmp + 1
          /\ d.greatestChild = d.left

\* the right child is compared only when it is inside the shrunk array; a
\* push of elements that all compare equal leaves them in insertion order; a
\* pop of such a heap returns index 0 and moves the last element there
C20_TieOrder ==
  /\ \A id \in CallIds :
       LET c == calls[id]
       IN /\ c.pc = "pop_child" => c.right < c.size
          /\ c.pc = "pop_parent" /\ c.right >= c.size =>
               /\ c.greatestChild = c.left
               /\ c.ca = At(Data(c.h), c.left)
  /\ last.op = "push" /\ AllTie(last.pre \o last.args, heap[last.h].cmp) =>
       Data(last.h) = last.pre \o last.args
  /\ last.op = "pop" /\ last.pre # <<>> /\ AllTie(last.pre, heap[last.h].cmp) =>
       /\ last.result = At(last.pre, 0)
       /\ Data(last.h) =
            IF Len(last.pre) = 1 THEN <<>>
            ELSE <<At(last.pre, Len(last.pre) - 1)>>
                   \o SubSeq(last.pre, 2, Len(last.pre) - 1)

\* C20: a comparison result of 0 never causes a swap: push leaves the new
\* element below an equal parent; pop leaves the relocated element above an
\* equal child, takes the left child when the children compare equal, and
\* takes it with no comparison when the right child index is outside the
\* shrunk array.  So equal elements pushed stay in insertion order, and each
\* pop of them returns index 0 and moves the last element to index 0.
C20_Ties == []C20_TieOrder /\ [][C20_TieStep]_vars

\* a pop of four or more elements that compare equal without all being the
\* same value
C20_Witness ==
  /\ last.op = "pop" /\ Len(last.pre) >= 4 /\ heap[last.h].cmp = "ascendX"
  /\ AllTie(last.pre, "ascendX")
  /\ At(last.pre, 0) # At(last.pre, Len(last.pre) - 1)
  /\ At(Data(last.h), 0) = At(last.pre, Len(last.pre) - 1)
  /\ last.ncmp = 2

(* ------------------------------------------------------ comparison counts *)
RECURSIVE FloorLog2(_)

\* floor(log2(n)) for n >= 1
FloorLog2(n) == IF n <= 1 THEN 0 ELSE 1 + FloorLog2(n \div 2)

\* the levels of a heap of m elements
Levels(m) == IF m = 0 THEN 0 ELSE FloorLog2(m) + 1

RECURSIVE PushBound(_, _)

\* floor(log2(n + 1)) comparisons for each of k values pushed in turn onto n
PushBound(n, k) ==
  IF k = 0 THEN 0 ELSE FloorLog2(n + 1) + PushBound(n + 1, k - 1)

\* a push onto n elements made at most floor(log2(n + 1)) comparisons for each
\* value; a pop of n elements made at most two for each level of the other
\* n - 1, and none when n <= 2
C21_Counts ==
  /\ last.op = "push" /\ last.threw = "" =>
       /\ last.ncmp <= PushBound(Len(last.pre), Len(last.args))
       /\ Len(last.args) = 1 => last.ncmp <= FloorLog2(Len(last.pre) + 1)
  /\ last.op = "pop" =>
       /\ last.ncmp <= 2 * Levels(Len(last.pre) - 1)
       /\ Len(last.pre) <= 2 => last.ncmp = 0
  /\ \A id \in CallIds :
       LET c == calls[id]
       IN /\ c.op = "push" =>
               c.ncmp <= PushBound(Len(c.pre), Len(c.args) - Len(c.values))
          /\ c.op = "pop" => c.ncmp <= 2 * Levels(Len(c.pre) - 1)

\* each swap of a push moves the value to a strictly smaller index and each
\* swap of a pop moves the element to a strictly greater one
C21_Progress ==
  LET c == calls[1]
      d == calls'[1]
  IN /\ c.op = "push" /\ d.op = "push" /\ d.values = c.values /\ d # c =>
          d.index < c.index /\ d.index >= 0
     /\ c.pc = "pop_parent" /\ d.op = "pop" /\ d # c =>
          d.parent > c.parent /\ d.left < d.size

\* C21: provided every comparison returns, every push and pop that overlaps
\* no other terminates; pushing one value onto n elements makes at most
\* floor(log2(n + 1)) comparisons, the index falling at each swap; a pop of n
\* elements makes at most two comparisons per level of the remaining n - 1,
\* the index rising at each swap, and none when n <= 2.
C21_Termination ==
  /\ []C21_Counts
  /\ [][C21_Progress]_vars
  /\ (calls[1].op # "idle") ~> (calls[1].op = "idle")

\* a push of one value onto three elements that made the two comparisons its
\* bound allows
C21_Witness ==
  /\ last.op = "push" /\ Len(last.args) = 1 /\ Len(last.pre) = 3
  /\ last.ncmp = 2 /\ last.ncmp = FloorLog2(Len(last.pre) + 1)

(* ------------------------------------------------------ overlapping calls *)
\* pop has returned while the push that started during it still waits for its
\* first comparison
PopOvertaken ==
  /\ last.op = "pop" /\ last.threw = "" /\ Len(last.pre) >= 3
  /\ calls[2].op = "push" /\ calls[2].ncmp = 1

\* such a pop returned the pushed value; every element the heap held is still
\* stored, the original root in the last slot
C22_Overtaken ==
  PopOvertaken =>
    LET data == Data(1)
    IN /\ last.result = calls[2].args[1]
       /\ Len(data) = Len(last.pre)
       /\ BagOf(data) = BagOf(last.pre)
       /\ At(data, Len(data) - 1) = At(last.pre, 0)

\* a push that starts during a suspended pop appends its value; a pop that
\* finishes removes and returns the last slot of the array as it is then
C22_LastSlot ==
  LET data == mem[heap[1].data]
      after2 == mem'[heap'[1].data]
  IN /\ calls[1].op = "pop" /\ calls[2].op = "idle" /\ calls'[2].op = "push" =>
          /\ after2 = Append(data, calls'[2].args[1])
          /\ calls'[1] = calls[1]
     /\ calls[1].op = "pop" /\ calls'[1].op = "idle" /\ last'.threw = "" =>
          /\ last'.result = At(data, Len(data) - 1)
          /\ Len(after2) = Len(data) - 1
          /\ BagOf(Append(after2, last'.result)) = BagOf(data)

\* C22: no locking: while a pop of three or more elements is suspended at a
\* comparison, a push on the heap can start and append its value; the pop, on
\* finishing, removes and returns the element in the last slot at that moment
\* (the pushed value) instead of the root it had swapped to the end, so the
\* original root stays stored below the top and the value returned need not
\* be one that no stored element is better than.
C22_PopPushRace == []C22_Overtaken /\ [][C22_LastSlot]_vars

\* a pop that returned the pushed value while a stored element, the original
\* root among them, sorts strictly before it
C22_Witness ==
  /\ PopOvertaken
  /\ last.result = calls[2].args[1]
  /\ last.result # At(last.pre, 0)
  /\ Compare(heap[1].cmp, At(last.pre, 0), last.result) < 0
  /\ \E i \in DOMAIN Data(1) : Data(1)[i] = At(last.pre, 0)
  /\ At(Data(1), 0) # At(last.pre, 0)

\* the values the pushes in flight have taken and not appended yet
Owed == calls[1].values \o calls[2].values

\* the values of the push that the step starts
NewlyPushed ==
  IF \E id \in CallIds : calls[id].op = "idle" /\ calls'[id].op = "push"
  THEN (CHOOSE c \in {calls'[id] : id \in
                       {i \in CallIds : calls[i].op = "idle"
                                          /\ calls'[i].op = "push"}} : TRUE).args
  ELSE IF Quiescent /\ last'.op = "push" THEN last'.args
  ELSE <<>>

\* every step keeps the elements stored and still to append, adding those of
\* the push it starts; a push that returns returns the length at that moment
C23_Kept ==
  /\ heap[1].live /\ heap'[1].live =>
       BagOf(mem'[heap'[1].data] \o Owed')
         = BagOf(mem[heap[1].data] \o Owed \o NewlyPushed)
  /\ last'.op = "push" /\ last' # last =>
       last'.result = Len(mem'[heap'[1].data])

\* once overlapping pushes have all returned, the array holds as many elements
\* as were there and were pushed, none of them undefined, and nothing is owed
C23_Settled ==
  heap[1].live /\ (Quiescent \/ heap[1].overlaps > 0) =>
    /\ \A i \in DOMAIN Data(1) : Data(1)[i] \in Val
    /\ Quiescent => Owed = <<>>
    /\ Quiescent /\ last.op = "push" => last.result = Len(Data(1))

\* C23: for any interleaving at the comparisons of two push calls on one heap
\* (no pop, no clear, no failing comparison), once all have returned the array
\* holds exactly the previous elements and every pushed value, none lost and
\* none duplicated, its length the previous length plus the number of values
\* pushed; the heap property is not guaranteed.
C23_OverlappingPushes == []C23_Settled /\ [][C23_Kept]_vars

\* two overlapping pushes have returned and left a child that sorts strictly
\* before its parent
C23_Witness ==
  /\ Quiescent /\ heap[1].overlaps > 0 /\ last.op = "push"
  /\ ~HeapProperty(Data(1), heap[1].cmp)
  /\ Len(Data(1)) >= 3

(* ------------------------------------------------------------ conservation *)
\* the values the push of call 1 still had to append before the step
ToAppend ==
  IF calls[1].op = "push" THEN calls[1].values
  ELSE IF calls'[1].op = "push" THEN calls'[1].args
  ELSE IF Quiescent /\ last'.op = "push" THEN last'.args
  ELSE <<>>

\* the values it still has to append after the step, or never will
NotAppended ==
  IF calls'[1].op = "push" THEN calls'[1].values
  ELSE IF last'.op = "push" THEN last'.rest
  ELSE <<>>

\* the values the step appends
Appended == SubSeq(ToAppend, 1, Len(ToAppend) - Len(NotAppended))

\* the element a pop hands to its caller in the step
Handed ==
  IF /\ last'.op = "pop" /\ last'.threw = "" /\ last'.pre # <<>>
     /\ (calls[1].op = "pop" \/ Quiescent)
  THEN <<last'.result>>
  ELSE <<>>

\* a step changes the stored elements by the values a push appends in it and
\* the element a completed pop returns in it, and by nothing else
C24_Step ==
  heap[1].live /\ heap'[1].live =>
    BagOf(mem'[heap'[1].data] \o Handed) = BagOf(mem[heap[1].data] \o Appended)

\* with no call in flight every stored element is a pushed value, and awaited
\* pops until the heap is empty return each stored element once
C24_DrainsAll ==
  heap[1].live /\ Quiescent =>
    /\ \A i \in DOMAIN Data(1) : Data(1)[i] \in Val
    /\ BagOf(PopAll(Data(1), heap[1].cmp)) = BagOf(Data(1))
    /\ Failed("push") =>
         BagOf(Data(1) \o last.rest) = BagOf(last.pre \o last.args)
    /\ Failed("pop") => BagOf(Data(1)) = BagOf(last.pre)

\* C24: after any sequence of push and pop calls that do not overlap, calls
\* aborted by a failing comparison included, the elements stored are the
\* values push appended less the values completed pops of a non-empty heap
\* returned: none is lost, duplicated or replaced, and a full drain returns
\* each stored element once.
C24_Conservation == []C24_DrainsAll /\ [][C24_Step]_vars

\* a pop completed on a heap that an aborted call had left out of order
C24_Witness ==
  /\ last.op = "pop" /\ last.threw = "" /\ heap[1].fails > 0
  /\ ~HeapProperty(last.pre, heap[1].cmp) /\ Len(last.pre) >= 3
  /\ BagOf(Append(Data(1), last.result)) = BagOf(last.pre)

(* ------------------------------------------- pushes between drain steps *)
\* One heap filled value by value and drained by a consumer that keeps asking
\* for the next value (`for await`); values are pushed, each awaited, between
\* the steps of the drain and after it has finished.
NextRefill ==
  \/ Quiescent /\ \E arg \in Comparators \cup {"undefined"} : Construct(1, arg)
  \/ /\ Quiescent /\ heap[1].live /\ Len(Data(1)) < MaxSrc
     /\ \E v \in Val : Push(1, 1, <<v>>)
  \/ Quiescent /\ Drain(1, "drain")
  \/ Quiescent /\ DrainNext(1)
  \/ CompareReturn(1)

SpecRefill ==
  /\ Init /\ [][NextRefill]_vars
  /\ WF_vars(Quiescent /\ DrainNext(1))
  /\ WF_vars(CompareReturn(1))

\* a step of the generator has completed: a value delivered, or done reported
DrainStepped == last' # last /\ last'.tag = "drain"

\* a push() starts
PushStarts ==
  /\ calls[1].op = "idle"
  /\ (calls'[1].op = "push" \/ (last' # last /\ last'.op = "push"))

\* push(v) has completed between two steps of a drain that is not finished
PushedBetween(v) ==
  /\ gen.state = "suspended" /\ Quiescent
  /\ last.op = "push" /\ last.threw = "" /\ last.args = <<v>>

\* the latest step of the drain delivered v
Yielded(v) ==
  /\ last.tag = "drain" /\ ~last.bool /\ last.threw = "" /\ last.result = v
  /\ gen.state = "suspended"

\* the steps of a generator
C25_Steps ==
  /\ \* a step on a non-empty heap delivers the best element the array held
     \* when the step began, values pushed since the last step included, and
     \* removes it
     DrainStepped /\ ~last'.bool =>
       /\ gen.state \in {"suspended", "running"} /\ gen'.state = "suspended"
       /\ last'.pre # <<>>
       /\ \A i \in 1..Len(last'.pre) :
            Compare(heap[1].cmp, last'.pre[i], last'.result) >= 0
       /\ BagOf(Append(mem'[heap'[1].data], last'.result)) = BagOf(last'.pre)
  /\ \* a generator finishes only at a step that finds the heap empty
     gen.state # "done" /\ gen'.state = "done" =>
       /\ gen.state = "suspended" /\ isEmpty(Data(1))
       /\ last'.tag = "drain" /\ last'.bool /\ last'.pre = <<>>
  /\ \* a step with the heap empty finishes the generator
     DrainStepped /\ last'.bool => gen'.state = "done" /\ UNCHANGED <<mem, heap>>
  /\ \* a finished generator delivers nothing, whatever the heap holds
     gen.state = "done" /\ DrainStepped =>
       last'.bool /\ last'.pre = Data(1) /\ UNCHANGED <<mem, heap, gen>>
  /\ \* a value pushed between two steps is in the array the next step pops
     \A v \in Val :
       PushedBetween(v) /\ (calls'[1].tag = "drain" \/ DrainStepped) =>
         \E i \in 1..Len(Data(1)) : Data(1)[i] = v

\* between steps, the steps still to come deliver every stored element, the
\* best remaining one each time
C25_Remaining ==
  heap[1].live /\ Quiescent =>
    LET all == PopAll(Data(1), heap[1].cmp)
    IN /\ BagOf(all) = BagOf(Data(1))
       /\ BestFirst(all, heap[1].cmp)
       /\ gen.state = "done" /\ gen.clean => isEmpty(Data(1))

\* unless pushes keep starting, a value pushed between two steps is delivered
\* and the drain finishes
C25_Finite ==
  \/ []<><<PushStarts>>_vars
  \/ /\ \A v \in Val : PushedBetween(v) ~> Yielded(v)
     /\ (gen.state = "suspended") ~> (gen.state = "done")

\* C25: a drain looks at the heap anew at every step: a value whose push
\* completed between two steps of an unfinished drain is delivered by that
\* drain, at the step where it is the best element left; the drain finishes
\* only at a step that finds the heap empty, so it finishes only if pushes
\* stop; a finished drain delivers nothing more, also when the heap is filled
\* again.
C25_Refill == []C25_Remaining /\ [][C25_Steps]_vars /\ C25_Finite

\* the drain delivers a value that was pushed after the drain began, onto a
\* heap that then held other elements, none of them as good
C25_Witness ==
  /\ Yielded(last.result) /\ ~gen.clean
  /\ Len(last.pre) >= 3
  /\ heap[1].cmp = "descend" /\ last.result = MaxVal
  /\ \A i \in 2..Len(last.pre) : last.pre[i] < MaxVal
====
